---- MODULE Spec2Model ----
(***************************************************************************)
(* tailjlogs: the LogView controller of src/tailjlogs/log_view.py together *)
(* with the log engine it drives (LogLines, the scanner, the watcher and   *)
(* the merged index).  The view's handlers are translated from             *)
(* log_view.py; the engine's source is not part of the source tree at      *)
(* hand, so the engine is modelled from the design document.  Messages are *)
(* delivered through the view's FIFO message queue.                        *)
(***************************************************************************)
EXTENDS Integers, Sequences, FiniteSets, TLC

(* ------------------------------ bounds -------------------------------- *)
\* A producer posts to the view only while fewer than MaxQueue messages wait.
MaxQueue == 1
\* Lines the merged index may hold before the watched files stop growing.
MaxLines == 4
\* Timestamps are drawn from 1..MaxTs.
MaxTs == 2
\* Lines handed to _format_line_for_copy are at most MaxLineLen characters long.
MaxLineLen == 4
\* Clipboard mechanisms are invoked at most MaxCalls times in a run.
MaxCalls == 2
\* At most MaxInvocations invocations of LogFooter.mount_keys are made in a run.
MaxInvocations == 3
\* _send_osc52 is called with max_bytes in 0..MaxBytes.
MaxBytes == 2
\* The copy-JSON action reaches the clipboard at most MaxCopies times in a run.
MaxCopies == 1

(* ----------------------------- constants ------------------------------ *)
\* Python's None, as the value of pointer_line and of PointerMoved.pointer_line.
None == -1
\* KeyDebug.hide_timeout, in seconds.
HideTimeout == 3
\* The files of the session, in declaration order (file A, file B).
FileIds == {1, 2}
Timestamps == 1..MaxTs

VARIABLES
    can_tail,       \* LogView.can_tail
    tail,           \* LogView.tail (data-bound to LogLines, InfoOverlay, LogFooter)
    show_find,      \* LogView.show_find
    show_filter,    \* LogView.show_filter
    show_panel,     \* LogView.show_panel
    copy_raw,       \* LogView.copy_raw
    pointer_line,   \* LogLines.pointer_line: None or a global line number
    info_message,   \* InfoOverlay.message: 0 is "", K > 0 is "+K lines"
    info_display,   \* InfoOverlay.display
    bar_mounted,    \* the ScanProgressBar is in the DOM
    bar_complete,   \* ScanProgressBar.complete
    loading,        \* LogLines.loading
    footer_line_no, \* LogFooter.line_no
    app_exit,       \* App._exit
    notice,         \* text of the last notification shown by notify()
    error,          \* exception escaped from a handler ("" when none)
    queue,          \* messages posted to the view and not yet handled
    files,          \* per file: the timestamps of its newline-terminated lines
    scanned,        \* per file: the scanner has reached its end (ScanState.complete)
    lines_scanned,  \* per file: lines the scanner indexed (ScanState.lines_scanned)
    scan_done,      \* the scan reached end-of-file and emitted ScanComplete
    merged,         \* MergedIndex: sequence of <<file, local line>>
    texts,          \* per file: the text of each line, a sequence of characters
    last,           \* name of the operation that made the last step
    find,                  \* LogLines.find
    regex,                 \* LogLines.regex
    case_sensitive,        \* LogLines.case_sensitive
    filter_text,           \* LogLines.filter_text
    filter_regex,          \* LogLines.filter_regex
    filter_case_sensitive, \* LogLines.filter_case_sensitive
    filter_dialog,         \* FilterDialog: the values of its inputs
    not_found,             \* the last advance_search signalled "not found"
    examined,              \* lines the last advance_search looked at
    handle_open,           \* per file: the session holds its file handle open
    get_text_call,         \* a consumer's blocking get_text call and how it stands
    line,                  \* _format_line_for_copy: its argument line
    raw,                   \* _format_line_for_copy: its argument raw
    out,                   \* _format_line_for_copy: the string it returned
    exc,                   \* _format_line_for_copy: the exception it raised ("" when none)
    platform,              \* sys.platform
    which,                 \* the commands shutil.which finds
    copy_method,           \* os.environ TAILJLOGS_COPY_METHOD ("" when unset)
    copy_text,             \* the text given to _copy_to_clipboard or _send_osc52
    run_calls,             \* the clipboard mechanisms invoked so far, in order
    result,                \* the (ok, err) tuple the last call returned
    call_exc,              \* the exception the last call raised to its caller
    stdout,                \* what was written to sys.stdout
    show_key_debug,        \* LogView.show_key_debug, bound to KeyDebug.show_key_debug
    visible,               \* KeyDebug has the CSS class "visible"
    is_mounted,            \* KeyDebug.is_mounted
    key_message,           \* KeyDebug.message
    label,                 \* what KeyDebug's Label shows
    hide_timer,            \* KeyDebug._hide_timer: None or a timer's id
    timers,                \* the pending timers: id and seconds left
    since_update,          \* seconds since watch_message last updated the Label
    footer_filename,       \* LogFooter.filename: 0 is "", else the file
    footer_timestamp,      \* LogFooter.timestamp
    meta,                  \* the parts of the text the footer's MetaLabel shows
    screen_active,         \* the footer's screen is the app's active screen
    bindings,              \* the actions of app.active_bindings that are shown
    lock,                  \* LogFooter.lock: 0 when free, else the invocation holding it
    mount_pc,              \* per invocation of mount_keys: where it stands
    key_container          \* the FooterKeys in the key container, by action

view_vars == <<can_tail, tail, show_find, show_filter, show_panel, copy_raw,
               info_message, info_display, bar_mounted, bar_complete, loading,
               footer_line_no, app_exit, notice, error>>
engine_vars == <<pointer_line, files, scanned, lines_scanned, scan_done, merged, texts>>
find_vars == <<find, regex, case_sensitive>>
filter_vars == <<filter_text, filter_regex, filter_case_sensitive>>
search_vars == <<not_found, examined>>
\* The state of the collaborators the tail controller does not touch.
session_vars == <<handle_open, get_text_call>>
format_vars == <<line, raw, out, exc>>
env_vars == <<platform, which, copy_method>>
copy_vars == <<env_vars, copy_text, run_calls, result, call_exc, stdout>>
key_vars == <<show_key_debug, visible, is_mounted, key_message, label, hide_timer,
              timers, since_update>>
footer_vars == <<footer_filename, footer_timestamp, meta>>
keys_vars == <<screen_active, bindings, lock, mount_pc, key_container>>
rest_vars == <<session_vars, format_vars, copy_vars, key_vars, footer_vars, keys_vars>>
ext_vars == <<find_vars, filter_vars, search_vars, filter_dialog, rest_vars>>
vars == <<view_vars, engine_vars, queue, last, ext_vars>>

(* ------------------------------ line text ----------------------------- *)
\* A text is a sequence of characters.  The line the watched files' writers
\* append in sessions that do not look at the text.
NewLineText == <<"1">>

(* ------------------- json.loads and json.dumps ------------------------ *)
\* JSON values: integers and lists.
JsonInt(n) == [type |-> "int", v |-> n, items |-> <<>>]
JsonList(items) == [type |-> "list", v |-> 0, items |-> items]

Digits == <<"0", "1", "2", "3", "4", "5", "6", "7", "8", "9">>
IsDigit(c) == \E i \in 1..Len(Digits) : Digits[i] = c
DigitValue(c) == (CHOOSE i \in 1..Len(Digits) : Digits[i] = c) - 1
IsWs(c) == c \in {" ", "\n", "\t", "\r"}

\* The decoder's result: a value and the text after it, or a failure.
DecodeError == [ok |-> FALSE, value |-> JsonInt(0), rest |-> <<>>]
Decoded(value, rest) == [ok |-> TRUE, value |-> value, rest |-> rest]

RECURSIVE SkipWs(_)
SkipWs(t) == IF t # <<>> /\ IsWs(Head(t)) THEN SkipWs(Tail(t)) ELSE t

\* An integer is "0" or a run of digits that does not start with "0".
RECURSIVE ParseDigits(_, _)
ParseDigits(t, n) ==
    IF t # <<>> /\ IsDigit(Head(t))
    THEN ParseDigits(Tail(t), 10 * n + DigitValue(Head(t)))
    ELSE Decoded(JsonInt(n), t)
ParseNumber(t) ==
    IF Head(t) = "0" THEN Decoded(JsonInt(0), Tail(t)) ELSE ParseDigits(t, 0)

RECURSIVE ParseValue(_)
RECURSIVE ParseElements(_, _)
ParseValue(t) ==
    LET u == SkipWs(t)
    IN  IF u = <<>> THEN DecodeError
        ELSE IF IsDigit(Head(u)) THEN ParseNumber(u)
        ELSE IF Head(u) = "["
        THEN LET w == SkipWs(Tail(u))
             IN  IF w # <<>> /\ Head(w) = "]" THEN Decoded(JsonList(<<>>), Tail(w))
                 ELSE ParseElements(w, <<>>)
        ELSE DecodeError
ParseElements(t, acc) ==
    LET r == ParseValue(t)
        u == SkipWs(r.rest)
    IN  IF ~r.ok \/ u = <<>> THEN DecodeError
        ELSE IF Head(u) = "," THEN ParseElements(Tail(u), Append(acc, r.value))
        ELSE IF Head(u) = "]" THEN Decoded(JsonList(Append(acc, r.value)), Tail(u))
        ELSE DecodeError

\* json.loads(s): one value with nothing but whitespace around it.
loads(s) ==
    LET r == ParseValue(s)
    IN  IF r.ok /\ SkipWs(r.rest) = <<>> THEN r ELSE DecodeError

RECURSIVE Decimal(_)
Decimal(n) ==
    IF n < 10 THEN <<Digits[n + 1]>>
    ELSE Decimal(n \div 10) \o <<Digits[(n % 10) + 1]>>
Spaces(n) == [i \in 1..n |-> " "]

\* json.dumps(data, indent=indent): each item on a line of its own.
RECURSIVE DumpValue(_, _, _)
RECURSIVE DumpItems(_, _, _)
DumpValue(d, indent, level) ==
    IF d.type = "int" THEN Decimal(d.v)
    ELSE IF d.items = <<>> THEN <<"[", "]">>
    ELSE <<"[">> \o DumpItems(d.items, indent, level + 1)
               \o <<"\n">> \o Spaces(indent * level) \o <<"]">>
DumpItems(items, indent, level) ==
    <<"\n">> \o Spaces(indent * level) \o DumpValue(Head(items), indent, level)
        \o (IF Tail(items) = <<>> THEN <<>>
            ELSE <<",">> \o DumpItems(Tail(items), indent, level))
dumps(d, indent) == DumpValue(d, indent, 0)

(* ----------------- _format_line_for_copy (log_view.py) ---------------- *)
\* The function returning the line itself when it does not parse.
format_line_for_copy_lenient(l, r) ==
    IF r THEN [out |-> l, exc |-> ""]
    ELSE LET data == loads(l)
         IN  IF ~data.ok THEN [out |-> l, exc |-> ""]
             ELSE [out |-> dumps(data.value, 2), exc |-> ""]

\* _format_line_for_copy(line, raw): what it returns or raises.
format_line_for_copy(l, r) ==
    IF r THEN [out |-> l, exc |-> ""]
    ELSE LET data == loads(l)
         IN  IF ~data.ok THEN [out |-> <<>>, exc |-> "ValueError"]
             ELSE [out |-> dumps(data.value, 2), exc |-> ""]

(* ------------------ _copy_to_clipboard (log_view.py) ------------------ *)
\* A str is its code points, bytes are their values; the two never compare
\* equal.
Ord(c) ==
    CASE c = "\n" -> 10 [] c = " " -> 32 [] c = "," -> 44 [] c = "1" -> 49
      [] c = "[" -> 91 [] c = "]" -> 93 [] c = "a" -> 97 [] c = "e'" -> 233
Str(t) == [type |-> "str", data |-> [i \in 1..Len(t) |-> Ord(t[i])]]

\* text.encode("utf-8")
EncodeCodePoint(cp) ==
    IF cp < 128 THEN <<cp>>
    ELSE IF cp < 2048 THEN <<192 + (cp \div 64), 128 + (cp % 64)>>
    ELSE <<224 + (cp \div 4096), 128 + ((cp \div 64) % 64), 128 + (cp % 64)>>
RECURSIVE EncodeAll(_)
EncodeAll(cps) ==
    IF cps = <<>> THEN <<>> ELSE EncodeCodePoint(Head(cps)) \o EncodeAll(Tail(cps))
Utf8(t) == [type |-> "bytes", data |-> EncodeAll(Str(t).data)]

\* sys.platform.startswith("win")
StartsWithWin(p) == p \in {"win32"}

\* How a run of a utility, and how the Tkinter calls, can end.
RunOutcomes == {"ok", "CalledProcessError", "FileNotFoundError"}
TkOutcomes == {"ok", "ModuleNotFoundError", "TclError"}

\* str(exc) of the exceptions a mechanism raises.
Message(outcome) ==
    CASE outcome = "CalledProcessError" -> "Command returned non-zero exit status 1."
      [] outcome = "FileNotFoundError" -> "[Errno 2] No such file or directory"
      [] outcome = "ModuleNotFoundError" -> "No module named 'tkinter'"
      [] outcome = "TclError" -> "no display name and no $DISPLAY environment variable"

\* subprocess.run([mechanism ...], input=..., check=True), or the Tkinter
\* calls: the invocation and how it ended ("ok" or the exception raised).
Invocation(mechanism, input, outcome) ==
    [mechanism |-> mechanism, input |-> input, outcome |-> outcome]
Success == [ok |-> TRUE, err |-> <<>>]
Failure(message) == [ok |-> FALSE, err |-> <<message>>]

\* The selection with xclip looked for before wl-copy.
SelectedXclipFirst ==
    IF platform = "darwin" THEN "pbcopy"
    ELSE IF StartsWithWin(platform) THEN "clip"
    ELSE IF "xclip" \in which THEN "xclip"
    ELSE IF "wl-copy" \in which THEN "wl-copy"
    ELSE IF "xsel" \in which THEN "xsel"
    ELSE "tkinter"

\* The branch _copy_to_clipboard takes.
Selected ==
    IF platform = "darwin" THEN "pbcopy"
    ELSE IF StartsWithWin(platform) THEN "clip"
    ELSE IF "wl-copy" \in which THEN "wl-copy"
    ELSE IF "xclip" \in which THEN "xclip"
    ELSE IF "xsel" \in which THEN "xsel"
    ELSE "tkinter"

\* The function trying Tkinter after a utility that failed.
copy_to_clipboard_fall_through(t, outcome, tk_outcome) ==
    LET mechanism == Selected
        tk == Invocation("tkinter", Str(t), tk_outcome)
        tk_result == IF tk_outcome = "ok" THEN Success
                     ELSE Failure("No clipboard utility found: " \o Message(tk_outcome))
    IN  IF mechanism = "tkinter"
        THEN [calls |-> <<tk>>, result |-> tk_result, exc |-> ""]
        ELSE IF outcome = "ok"
        THEN [calls |-> <<Invocation(mechanism, Utf8(t), outcome)>>,
              result |-> Success, exc |-> ""]
        ELSE [calls |-> <<Invocation(mechanism, Utf8(t), outcome), tk>>,
              result |-> tk_result, exc |-> ""]

\* _copy_to_clipboard(text): the invocations it makes and what it returns,
\* when the utility ends as `outcome` and Tkinter as `tk_outcome`.
copy_to_clipboard(t, outcome, tk_outcome) ==
    LET mechanism == Selected
    IN  IF mechanism = "tkinter"
        THEN [calls  |-> <<Invocation("tkinter", Str(t), tk_outcome)>>,
              result |-> IF tk_outcome = "ok" THEN Success
                         ELSE Failure("No clipboard utility found: " \o Message(tk_outcome)),
              exc    |-> ""]
        ELSE [calls  |-> <<Invocation(mechanism, Utf8(t), outcome)>>,
              result |-> IF outcome = "ok" THEN Success ELSE Failure(Message(outcome)),
              exc    |-> ""]

(* ------------------------ LogFooter (log_view.py) --------------------- *)
\* The parts update_meta joins into the MetaLabel's text; 0, None and "" are
\* parts left out.
Meta(filename, timestamp, line_no, copy) ==
    [filename |-> filename, timestamp |-> timestamp, line_no |-> line_no, copy |-> copy]
CopyIndicator(r) == IF r THEN "Copy: Raw" ELSE "Copy: Pretty"

\* LogFooter.update_meta() with the footer's reactives as given.
update_meta(filename, timestamp, line_no, panel, r) ==
    Meta(filename, timestamp, IF line_no = None THEN None ELSE line_no + 1,
         IF panel THEN CopyIndicator(r) ELSE "")

\* LogFooter's reactive defaults and MetaLabel("").
FooterIdle ==
    /\ footer_filename = 0 /\ footer_timestamp = None
    /\ meta = Meta(0, None, None, "")

(* -------------------- LogFooter.mount_keys (log_view.py) -------------- *)
\* The invocations of mount_keys a run can make.
Invocations == 1..MaxInvocations
\* The shown bindings of LogView, of a dialog that has the focus, and of a
\* screen pushed over the view (action names).
ViewBindings == {"toggle_tail", "show_find_dialog", "goto"}
FocusBindings == {ViewBindings, ViewBindings \cup {"dialog"}}
ModalBindings == {"modal"}
BindingOrder == <<"toggle_tail", "show_find_dialog", "goto", "dialog", "modal">>

\* An invocation not made yet, and mount_keys called once more (by a watch
\* callback or call_after_refresh); with none left, no call is made.
Free == {i \in Invocations : mount_pc[i] = "none"}
Scheduled ==
    IF Free = {} THEN mount_pc
    ELSE [mount_pc EXCEPT ![CHOOSE i \in Free : \A j \in Free : i <= j] = "sched"]

\* The lock taken as free whoever holds it.
NeverLocked == FALSE
\* self.lock.locked()
Locked == lock # 0

\* The FooterKeys mount_all is given: one per shown active binding, the
\* toggle_tail key only with can_tail.
FooterKeys ==
    SelectSeq(BindingOrder,
              LAMBDA action : /\ action \in bindings
                              /\ action # "toggle_tail" \/ can_tail)

\* The footer before it is mounted: no key, no invocation, the lock free.
KeysIdle ==
    /\ screen_active = TRUE /\ bindings = ViewBindings
    /\ lock = 0 /\ mount_pc = [i \in Invocations |-> "none"]
    /\ key_container = <<>>

(* ----------------------------- messages ------------------------------- *)
ScanProgress(complete) == [type |-> "ScanProgress", complete |-> complete]
ScanComplete == [type |-> "ScanComplete"]
PendingLines(count) == [type |-> "PendingLines", count |-> count]
TailFile(t) == [type |-> "TailFile", tail |-> t]
PointerMoved(n) == [type |-> "PointerMoved", pointer_line |-> n]
DismissOverlay == [type |-> "DismissOverlay"]
SelectLine == [type |-> "SelectLine"]

\* post_message: the message joins the tail of the queue.
Post(q, msgs) == q \o msgs
Room == Len(queue) < MaxQueue
Next_msg(type) == queue # <<>> /\ Head(queue).type = type


(* ------------------- MergedIndex (design document 3, 4.3) ------------- *)
\* A line reference is <<file, local line number>>, local numbers from 0.
Ts(fs, r) == fs[r[1]][r[2] + 1]

\* The merge key order: (timestamp, file-declaration order, in-file order).
BeforeTimestampOnly(fs, a, b) == Ts(fs, a) <= Ts(fs, b)
Before(fs, a, b) ==
    \/ Ts(fs, a) < Ts(fs, b)
    \/ /\ Ts(fs, a) = Ts(fs, b)
       /\ \/ a[1] < b[1]
          \/ a[1] = b[1] /\ a[2] < b[2]

RECURSIVE Insert(_, _, _)
Insert(fs, seq, r) ==
    IF seq = <<>> THEN <<r>>
    ELSE IF Before(fs, r, Head(seq)) THEN <<r>> \o seq
    ELSE <<Head(seq)>> \o Insert(fs, Tail(seq), r)

RECURSIVE InsertFile(_, _, _, _)
InsertFile(fs, seq, f, l) ==
    IF l >= Len(fs[f]) THEN seq
    ELSE InsertFile(fs, Insert(fs, seq, <<f, l>>), f, l + 1)

RECURSIVE MergeFrom(_, _, _)
MergeFrom(fs, seq, f) ==
    IF f \notin FileIds THEN seq
    ELSE MergeFrom(fs, InsertFile(fs, seq, f, 0), f + 1)

\* The merged index the initial scan produces.
MergeFiles(fs) == MergeFrom(fs, <<>>, 1)

\* The references of lines old..new-1 of file f, in file order.
NewRefs(f, old, new) == [i \in 1..(new - old) |-> <<f, old + i - 1>>]

\* Extending the index after file f grew from old to new lines.
ExtendRemerge(m, fs, f, old, new) == MergeFiles(fs)
Extend(m, fs, f, old, new) == m \o NewRefs(f, old, new)

\* index_to_span(global line): the owning file and the local line number.
index_to_span(n) == merged[n + 1]
get_timestamp(n) == Ts(files, merged[n + 1])

\* The file and the timestamp of a global line as the footer reads them; a
\* line the index does not hold has neither.
SpanFile(n) == IF n + 1 \in DOMAIN merged THEN index_to_span(n)[1] ELSE 0
SpanTimestamp(n) == IF n + 1 \in DOMAIN merged THEN get_timestamp(n) ELSE None

\* get_text(global line): the text of the line.
get_text(n) == texts[merged[n + 1][1]][merged[n + 1][2] + 1]

(* ------------------ FilterEngine (design document 4.4, 7) ------------- *)
\* A predicate is a pattern, plain or a regular expression, with or without
\* case.  Case is folded on both sides when the predicate ignores it.
Lower(c) == IF c = "A" THEN "a" ELSE IF c = "B" THEN "b" ELSE c
Fold(text) == [i \in 1..Len(text) |-> Lower(text[i])]

\* A regular expression compiles unless it leaves a group open.
CompileOk(pattern) == \A i \in 1..Len(pattern) : pattern[i] # "("
ValidPredicate(pattern, is_regex) == ~is_regex \/ CompileOk(pattern)

\* One pattern element against one character: "." is any character in a
\* regular expression and a full stop in a plain pattern.
CharMatch(p, c, is_regex) == (is_regex /\ p = ".") \/ p = c
MatchAt(pattern, text, i, is_regex) ==
    \A k \in 1..Len(pattern) : CharMatch(pattern[k], text[i + k - 1], is_regex)
Search(pattern, text, is_regex) ==
    \E i \in 1..(Len(text) - Len(pattern) + 1) : MatchAt(pattern, text, i, is_regex)
Matches(pattern, is_regex, cs, text) ==
    IF cs THEN Search(pattern, text, is_regex)
    ELSE Search(Fold(pattern), Fold(text), is_regex)

\* The global lines the find predicate and the filter predicate match.
FindMatches ==
    {n \in 0..(Len(merged) - 1) : Matches(find, regex, case_sensitive, get_text(n))}
FilterMatches ==
    {n \in 0..(Len(merged) - 1) :
        Matches(filter_text, filter_regex, filter_case_sensitive, get_text(n))}

\* Assigning one attribute of a predicate <<pattern, is_regex, case_sensitive>>
\* recompiles it: a change that leaves an invalid regular expression is
\* rejected (InvalidPattern) and the attribute keeps its value.
SetPattern(p, v) == IF ValidPredicate(v, p[2]) THEN <<v, p[2], p[3]>> ELSE p
SetIsRegex(p, v) == IF ValidPredicate(p[1], v) THEN <<p[1], v, p[3]>> ELSE p
SetCaseSensitive(p, v) == <<p[1], p[2], v>>

\* The line after n in the direction, wrapping around the index bounds.
Wrap(n) == n % Len(merged)

\* advance_search's scan: looks at line `at`, then at the following lines,
\* until a line matches or `left` lines have been looked at.
RECURSIVE ScanFromNoWrap(_, _, _, _)
ScanFromNoWrap(at, direction, left, seen) ==
    IF left = 0 \/ at < 0 \/ at >= Len(merged) THEN [line |-> None, examined |-> seen]
    ELSE IF at \in FindMatches THEN [line |-> at, examined |-> seen + 1]
    ELSE ScanFromNoWrap(at + direction, direction, left - 1, seen + 1)

RECURSIVE ScanFrom(_, _, _, _)
ScanFrom(at, direction, left, seen) ==
    IF left = 0 THEN [line |-> None, examined |-> seen]
    ELSE IF at \in FindMatches THEN [line |-> at, examined |-> seen + 1]
    ELSE ScanFrom(Wrap(at + direction), direction, left - 1, seen + 1)

(* --------------------- InfoOverlay (log_view.py) ---------------------- *)
\* watch_message: display = bool(message.strip()).
watch_message_display(message) == message # 0

\* watch_tail: the message is cleared when tail goes off ...
watch_tail_message(message, t) == IF ~t THEN 0 ELSE message
\* ... and display = bool(message.strip() and not tail), on the new message.
watch_tail_display(message, t) == watch_tail_message(message, t) # 0 /\ ~t

\* Assigning LogView.tail: the reactive fires its watchers only on a change.
SetTail(t) ==
    /\ tail' = t
    /\ IF t # tail
       THEN /\ info_message' = watch_tail_message(info_message, t)
            /\ info_display' = watch_tail_display(info_message, t)
       ELSE UNCHANGED <<info_message, info_display>>

\* Assigning InfoOverlay.message.
SetMessage(message) ==
    /\ info_message' = message
    /\ info_display' = IF message # info_message
                       THEN watch_message_display(message)
                       ELSE info_display

(* ---------- scanner and watcher (design document 4.1, 4.2, 4.5) ------- *)
AllScanned(sc) == \A f \in FileIds : sc[f]

\* What the scanner emits after indexing one more file: a progress observation.
ScanFileEventsWithComplete(n) == <<ScanProgress(n), ScanComplete>>
ScanFileEvents(n) == <<ScanProgress(n)>>

\* PendingLines is fired only when tail is enabled for the session.
NotifyAlways(t, count) == <<PendingLines(count)>>
Notify(t, count) == IF t THEN <<PendingLines(count)>> ELSE <<>>

\* While tailing the cursor tracks the newest line of the index.
TailCursorFirstNew(t, cursor, old_count, new_count) == IF t THEN old_count ELSE cursor
TailCursor(t, cursor, old_count, new_count) == IF t THEN new_count - 1 ELSE cursor

\* The scanner indexes file f; progress is reported unless the queue is full.
ScanFile(f) ==
    /\ ~app_exit /\ ~scan_done /\ ~scanned[f]
    /\ scanned' = [scanned EXCEPT ![f] = TRUE]
    /\ lines_scanned' = [lines_scanned EXCEPT ![f] = Len(files[f])]
    /\ LET events == ScanFileEvents(Cardinality({g \in FileIds : scanned'[g]}))
       IN  queue' = IF Room THEN Post(queue, events) ELSE queue
    /\ last' = "ScanFile"
    /\ UNCHANGED ext_vars
    /\ UNCHANGED <<view_vars, pointer_line, files, scan_done, merged, texts>>

\* End-of-file on every file: the indices are merged and ScanComplete is emitted.
ScanFinish ==
    /\ ~app_exit /\ ~scan_done /\ AllScanned(scanned)
    /\ Room
    /\ merged' = MergeFiles(files)
    /\ scan_done' = TRUE
    /\ queue' = Post(queue, <<ScanComplete>>)
    /\ last' = "ScanFinish"
    /\ UNCHANGED ext_vars
    /\ UNCHANGED <<view_vars, pointer_line, files, scanned, lines_scanned, texts>>

\* The watcher finds that file f grew by the newline-terminated lines tss.
Grow(f, tss) ==
    /\ ~app_exit /\ scan_done
    /\ Len(merged) + Len(tss) <= MaxLines
    /\ LET events == Notify(tail, Len(tss))
           moved  == TailCursor(tail, pointer_line, Len(merged), Len(merged) + Len(tss))
           all    == events \o (IF moved # pointer_line THEN <<PointerMoved(moved)>> ELSE <<>>)
       IN  /\ Room
           /\ files' = [files EXCEPT ![f] = @ \o tss]
           /\ texts' = [texts EXCEPT ![f] = @ \o [i \in 1..Len(tss) |-> NewLineText]]
           /\ merged' = Extend(merged, files', f, Len(files[f]), Len(files'[f]))
           /\ pointer_line' = moved
           /\ queue' = Post(queue, all)
    /\ last' = "Grow"
    /\ UNCHANGED ext_vars
    /\ UNCHANGED <<view_vars, scanned, lines_scanned, scan_done>>

\* Growth by lines stamped with the latest time.
WatcherGrow ==
    /\ scan_done
    /\ \E f \in FileIds, k \in 1..(MaxLines - Len(merged)) : Grow(f, [i \in 1..k |-> MaxTs])

\* Growth by lines of any timestamps (a file written late, or out of order).
WatcherGrowAny ==
    /\ scan_done
    /\ \E f \in FileIds, k \in 1..(MaxLines - Len(merged)) :
         \E tss \in [1..k -> Timestamps] : Grow(f, tss)

\* The user moves the cursor to line n; moving away from the tail pauses tailing.
move_cursor(n) ==
    /\ ~app_exit /\ scan_done
    /\ n \in 0..(Len(merged) - 1) /\ n # pointer_line
    /\ LET msgs == <<PointerMoved(n)>> \o (IF tail THEN <<TailFile(FALSE)>> ELSE <<>>)
       IN  /\ Room
           /\ queue' = Post(queue, msgs)
    /\ pointer_line' = n
    /\ last' = "move_cursor"
    /\ UNCHANGED ext_vars
    /\ UNCHANGED <<view_vars, files, scanned, lines_scanned, scan_done, merged, texts>>

MoveCursor == \E n \in 0..(MaxLines - 1) : move_cursor(n)

\* advance_search(direction): from the line after the cursor (from the first
\* visible line y when there is no cursor), one pass over the whole index.
\* Landing on another line reports the cursor move like any other move.
advance_search(direction, y) ==
    LET N     == Len(merged)
        start == IF pointer_line = None THEN y ELSE Wrap(pointer_line + direction)
        hit   == IF N = 0 THEN [line |-> None, examined |-> 0]
                 ELSE ScanFrom(start, direction, N, 0)
        moved == hit.line # None /\ hit.line # pointer_line
    IN  /\ examined' = hit.examined
        /\ not_found' = (hit.line = None)
        /\ pointer_line' = IF hit.line = None THEN pointer_line ELSE hit.line
        /\ queue' = Post(queue,
                IF moved
                THEN <<PointerMoved(hit.line)>> \o (IF tail THEN <<TailFile(FALSE)>> ELSE <<>>)
                ELSE <<>>)

\* A get_text call in flight when the session shuts down fails explicitly.
FailInFlight(call) == IF call = "waiting" THEN "SessionClosed" ELSE call

\* Session shutdown: the application is asked to exit.  Every per-file
\* scan/watch task is cancelled (none takes a step once app_exit is set) and
\* a waiting get_text call is failed.
action_quit ==
    /\ ~app_exit
    /\ app_exit' = TRUE
    /\ get_text_call' = FailInFlight(get_text_call)
    /\ last' = "action_quit"
    /\ UNCHANGED <<find_vars, filter_vars, search_vars, filter_dialog, handle_open,
                   format_vars, copy_vars, key_vars, footer_vars, keys_vars>>
    /\ UNCHANGED <<can_tail, tail, show_find, show_filter, show_panel, copy_raw,
                   info_message, info_display, bar_mounted, bar_complete, loading,
                   footer_line_no, notice, error, engine_vars, queue>>

\* Shutdown releases the file handles, after the tasks were cancelled.
close_files_any_time ==
    /\ \E f \in FileIds : handle_open[f]
    /\ handle_open' = [f \in FileIds |-> FALSE]
    /\ last' = "close_files"
    /\ UNCHANGED <<view_vars, engine_vars, queue, find_vars, filter_vars, search_vars,
                   filter_dialog, get_text_call, format_vars, copy_vars, key_vars, footer_vars, keys_vars>>

close_files ==
    /\ app_exit
    /\ \E f \in FileIds : handle_open[f]
    /\ handle_open' = [f \in FileIds |-> FALSE]
    /\ last' = "close_files"
    /\ UNCHANGED <<view_vars, engine_vars, queue, find_vars, filter_vars, search_vars,
                   filter_dialog, get_text_call, format_vars, copy_vars, key_vars, footer_vars, keys_vars>>

\* A consumer calls get_text(n, block=True): after shutdown the call fails
\* (SessionClosed); a line already indexed is read and returned; otherwise
\* the call waits for the scan of that region.
get_text_begin(n) ==
    /\ get_text_call # "waiting"
    /\ get_text_call' = IF app_exit THEN "SessionClosed"
                        ELSE IF n < Len(merged) THEN "returned"
                        ELSE "waiting"
    /\ last' = "get_text_begin"
    /\ UNCHANGED <<view_vars, engine_vars, queue, find_vars, filter_vars, search_vars,
                   filter_dialog, handle_open, format_vars, copy_vars, key_vars, footer_vars, keys_vars>>

\* The consumer asks for a line the files hold, indexed yet or not.
GetText ==
    \E n \in 0..(MaxLines - 1) :
        /\ n < Len(files[1]) + Len(files[2])
        /\ get_text_begin(n)

\* The scan has reached the region a waiting call asked for.
get_text_resume ==
    /\ ~app_exit /\ get_text_call = "waiting" /\ scan_done
    /\ get_text_call' = "returned"
    /\ last' = "get_text_resume"
    /\ UNCHANGED <<view_vars, engine_vars, queue, find_vars, filter_vars, search_vars,
                   filter_dialog, handle_open, format_vars, copy_vars, key_vars, footer_vars, keys_vars>>

(* ------------------- LogView handlers (log_view.py) ------------------- *)
\* The toggle written as an assignment of True.
action_toggle_tail_always_on ==
    /\ ~app_exit
    /\ IF ~can_tail
       THEN /\ notice' = "Can't tail this file"
            /\ UNCHANGED <<tail, info_message, info_display>>
       ELSE /\ SetTail(TRUE)
            /\ UNCHANGED notice
    /\ last' = "action_toggle_tail"
    /\ UNCHANGED ext_vars
    /\ UNCHANGED <<can_tail, show_find, show_filter, show_panel, copy_raw,
                   bar_mounted, bar_complete, loading, footer_line_no, app_exit,
                   error, engine_vars, queue>>

\* action_toggle_tail (ctrl+t).
action_toggle_tail ==
    /\ ~app_exit
    /\ IF ~can_tail
       THEN /\ notice' = "Can't tail this file"
            /\ UNCHANGED <<tail, info_message, info_display>>
       ELSE /\ SetTail(~tail)
            /\ UNCHANGED notice
    /\ last' = "action_toggle_tail"
    /\ UNCHANGED ext_vars
    /\ UNCHANGED <<can_tail, show_find, show_filter, show_panel, copy_raw,
                   bar_mounted, bar_complete, loading, footer_line_no, app_exit,
                   error, engine_vars, queue>>

\* InfoOverlay.on_click: the displayed overlay posts TailFile().
InfoOverlay_on_click ==
    /\ ~app_exit /\ info_display
    /\ Room
    /\ queue' = Post(queue, <<TailFile(TRUE)>>)
    /\ last' = "InfoOverlay_on_click"
    /\ UNCHANGED ext_vars
    /\ UNCHANGED <<view_vars, engine_vars>>

\* @on(TailFile)
on_tail_file ==
    /\ Next_msg("TailFile")
    /\ SetTail(Head(queue).tail)
    /\ queue' = Tail(queue)
    /\ last' = "on_tail_file"
    /\ UNCHANGED ext_vars
    /\ UNCHANGED <<can_tail, show_find, show_filter, show_panel, copy_raw,
                   bar_mounted, bar_complete, loading, footer_line_no, app_exit,
                   notice, error, engine_vars>>

\* The handler returning early whenever the view is not tailing.
on_pending_lines_only_tailing ==
    /\ Next_msg("PendingLines")
    /\ IF app_exit \/ ~tail
       THEN UNCHANGED <<info_message, info_display>>
       ELSE SetMessage(Head(queue).count)
    /\ queue' = Tail(queue)
    /\ last' = "on_pending_lines"
    /\ UNCHANGED ext_vars
    /\ UNCHANGED <<can_tail, tail, show_find, show_filter, show_panel, copy_raw,
                   bar_mounted, bar_complete, loading, footer_line_no, app_exit,
                   notice, error, engine_vars>>

\* @on(PendingLines)
on_pending_lines ==
    /\ Next_msg("PendingLines")
    /\ IF app_exit
       THEN UNCHANGED <<info_message, info_display>>
       ELSE SetMessage(Head(queue).count)
    /\ queue' = Tail(queue)
    /\ last' = "on_pending_lines"
    /\ UNCHANGED ext_vars
    /\ UNCHANGED <<can_tail, tail, show_find, show_filter, show_panel, copy_raw,
                   bar_mounted, bar_complete, loading, footer_line_no, app_exit,
                   notice, error, engine_vars>>

\* @on(ScanProgress): query_one(ScanProgressBar) raises NoMatches without a bar.
on_scan_progress ==
    /\ Next_msg("ScanProgress")
    /\ IF bar_mounted
       THEN /\ bar_complete' = Head(queue).complete
            /\ UNCHANGED error
       ELSE /\ error' = "NoMatches"
            /\ UNCHANGED bar_complete
    /\ queue' = Tail(queue)
    /\ last' = "on_scan_progress"
    /\ UNCHANGED ext_vars
    /\ UNCHANGED <<can_tail, tail, show_find, show_filter, show_panel, copy_raw,
                   info_message, info_display, bar_mounted, loading,
                   footer_line_no, app_exit, notice, engine_vars>>

\* @on(ScanComplete).  The footer's keys are remounted after the refresh.
on_scan_complete ==
    /\ Next_msg("ScanComplete")
    /\ IF bar_mounted
       THEN /\ bar_mounted' = FALSE
            /\ loading' = FALSE
            /\ queue' = Post(Tail(queue), <<PointerMoved(pointer_line)>>)
            /\ SetTail(TRUE)
            /\ mount_pc' = Scheduled
            /\ UNCHANGED error
       ELSE /\ error' = "NoMatches"
            /\ queue' = Tail(queue)
            /\ UNCHANGED <<bar_mounted, loading, tail, info_message, info_display,
                           mount_pc>>
    /\ last' = "on_scan_complete"
    /\ UNCHANGED <<find_vars, filter_vars, search_vars, filter_dialog, session_vars,
                   format_vars, copy_vars, key_vars, footer_vars>>
    /\ UNCHANGED <<screen_active, bindings, lock, key_container>>
    /\ UNCHANGED <<can_tail, show_find, show_filter, show_panel, copy_raw,
                   bar_complete, footer_line_no, app_exit, notice, engine_vars>>

\* LogLines.scroll_offset.y: the first visible line, the top or the tail end.
ScrollOffsets == {0, IF Len(merged) > 0 THEN Len(merged) - 1 ELSE 0}

\* @on(PointerMoved).  The footer's file name and timestamp follow from
\* line_no (index_to_span, get_timestamp); the LinePanel's text is not kept.
\* The panel left as it is whatever the event carries.
PanelKept(event) == show_panel
\* "if event.pointer_line is None: self.show_panel = False"
PanelAfter(event) == IF event.pointer_line = None THEN FALSE ELSE show_panel

pointer_moved ==
    /\ Next_msg("PointerMoved")
    /\ LET event == Head(queue)
       IN  /\ show_panel' = PanelAfter(event)
           /\ \E y \in ScrollOffsets :
                footer_line_no' = IF event.pointer_line = None
                                  THEN y ELSE event.pointer_line
    /\ footer_filename' = SpanFile(footer_line_no')
    /\ footer_timestamp' = SpanTimestamp(footer_line_no')
    /\ meta' = IF \/ footer_line_no' # footer_line_no
                  \/ footer_filename' # footer_filename
                  \/ footer_timestamp' # footer_timestamp
               THEN update_meta(footer_filename', footer_timestamp', footer_line_no',
                                show_panel', copy_raw)
               ELSE meta
    /\ queue' = Tail(queue)
    /\ last' = "pointer_moved"
    /\ UNCHANGED <<find_vars, filter_vars, search_vars, filter_dialog, session_vars,
                   format_vars, copy_vars, key_vars, keys_vars>>
    /\ UNCHANGED <<can_tail, tail, show_find, show_filter, copy_raw,
                   info_message, info_display, bar_mounted, bar_complete, loading,
                   app_exit, notice, error, engine_vars>>

\* The handler closing the detail panel before the dialogs.
dismiss_overlay_panel_first ==
    /\ Next_msg("DismissOverlay")
    /\ IF show_panel
       THEN /\ show_panel' = FALSE
            /\ queue' = Tail(queue)
            /\ UNCHANGED <<show_find, show_filter, pointer_line>>
       ELSE IF show_find
       THEN /\ show_find' = FALSE
            /\ queue' = Tail(queue)
            /\ UNCHANGED <<show_filter, show_panel, pointer_line>>
       ELSE IF show_filter
       THEN /\ show_filter' = FALSE
            /\ queue' = Tail(queue)
            /\ UNCHANGED <<show_find, show_panel, pointer_line>>
       ELSE /\ pointer_line' = None
            /\ queue' = Post(Tail(queue),
                             IF pointer_line # None THEN <<PointerMoved(None)>> ELSE <<>>)
            /\ UNCHANGED <<show_find, show_filter, show_panel>>
    /\ last' = "dismiss_overlay"
    /\ UNCHANGED ext_vars
    /\ UNCHANGED <<can_tail, tail, copy_raw, info_message, info_display,
                   bar_mounted, bar_complete, loading, footer_line_no, app_exit,
                   notice, error, files, scanned, lines_scanned, scan_done, merged, texts>>

\* @on(DismissOverlay); clearing LogLines.pointer_line reports the cursor move.
dismiss_overlay ==
    /\ Next_msg("DismissOverlay")
    /\ IF show_find
       THEN /\ show_find' = FALSE
            /\ queue' = Tail(queue)
            /\ UNCHANGED <<show_filter, show_panel, pointer_line>>
       ELSE IF show_filter
       THEN /\ show_filter' = FALSE
            /\ queue' = Tail(queue)
            /\ UNCHANGED <<show_find, show_panel, pointer_line>>
       ELSE IF show_panel
       THEN /\ show_panel' = FALSE
            /\ queue' = Tail(queue)
            /\ UNCHANGED <<show_find, show_filter, pointer_line>>
       ELSE /\ pointer_line' = None
            /\ queue' = Post(Tail(queue),
                             IF pointer_line # None THEN <<PointerMoved(None)>> ELSE <<>>)
            /\ UNCHANGED <<show_find, show_filter, show_panel>>
    /\ last' = "dismiss_overlay"
    /\ UNCHANGED ext_vars
    /\ UNCHANGED <<can_tail, tail, copy_raw, info_message, info_display,
                   bar_mounted, bar_complete, loading, footer_line_no, app_exit,
                   notice, error, files, scanned, lines_scanned, scan_done, merged, texts>>

\* @on(FindDialog.SelectLine)
select_line ==
    /\ Next_msg("SelectLine")
    /\ show_panel' = ~show_panel
    /\ queue' = Tail(queue)
    /\ last' = "select_line"
    /\ UNCHANGED ext_vars
    /\ UNCHANGED <<can_tail, tail, show_find, show_filter, copy_raw,
                   info_message, info_display, bar_mounted, bar_complete, loading,
                   footer_line_no, app_exit, notice, error, engine_vars>>

\* action_show_find_dialog (ctrl+f): the dialog is shown in both branches.
action_show_find_dialog ==
    /\ ~app_exit
    /\ show_find' = TRUE
    /\ last' = "action_show_find_dialog"
    /\ UNCHANGED ext_vars
    /\ UNCHANGED <<can_tail, tail, show_filter, show_panel, copy_raw,
                   info_message, info_display, bar_mounted, bar_complete, loading,
                   footer_line_no, app_exit, notice, error, engine_vars, queue>>

\* action_show_filter_dialog (backslash).
action_show_filter_dialog ==
    /\ ~app_exit
    /\ show_filter' = TRUE
    /\ last' = "action_show_filter_dialog"
    /\ UNCHANGED ext_vars
    /\ UNCHANGED <<can_tail, tail, show_find, show_panel, copy_raw,
                   info_message, info_display, bar_mounted, bar_complete, loading,
                   footer_line_no, app_exit, notice, error, engine_vars, queue>>

\* action_toggle_copy_format (y).
action_toggle_copy_format ==
    /\ ~app_exit
    /\ copy_raw' = ~copy_raw
    /\ notice' = IF copy_raw' THEN "Copy format: Raw" ELSE "Copy format: Pretty"
    /\ last' = "action_toggle_copy_format"
    /\ UNCHANGED ext_vars
    /\ UNCHANGED <<can_tail, tail, show_find, show_filter, show_panel,
                   info_message, info_display, bar_mounted, bar_complete, loading,
                   footer_line_no, app_exit, error, engine_vars, queue>>

\* action_copy_json (key c) without the check that the panel is open.
action_copy_json_any_panel ==
    /\ ~app_exit
    /\ Len(run_calls) < MaxCopies
    /\ IF pointer_line = None
       THEN /\ notice' = "No line selected"
            /\ UNCHANGED <<format_vars, copy_text, run_calls, result, call_exc>>
       ELSE LET l == get_text(pointer_line)
                r == format_line_for_copy(l, copy_raw)
            IN  /\ line' = l /\ raw' = copy_raw /\ out' = r.out /\ exc' = r.exc
                /\ IF r.exc = "ValueError"
                   THEN /\ notice' = "Current line is not valid JSON"
                        /\ UNCHANGED <<copy_text, run_calls, result, call_exc>>
                   ELSE \E outcome \in RunOutcomes, tk_outcome \in TkOutcomes :
                          LET c == copy_to_clipboard(r.out, outcome, tk_outcome)
                          IN  /\ copy_text' = r.out
                              /\ run_calls' = run_calls \o c.calls
                              /\ result' = c.result
                              /\ call_exc' = c.exc
                              /\ notice' = IF c.result.ok
                                           THEN IF copy_raw
                                                THEN "Copied Raw JSON to clipboard"
                                                ELSE "Copied Pretty JSON to clipboard"
                                           ELSE "Copy failed: " \o c.result.err[1]
    /\ last' = "action_copy_json"
    /\ UNCHANGED <<can_tail, tail, show_find, show_filter, show_panel, copy_raw,
                   info_message, info_display, bar_mounted, bar_complete, loading,
                   footer_line_no, app_exit, error, engine_vars, queue>>
    /\ UNCHANGED <<find_vars, filter_vars, search_vars, filter_dialog, session_vars,
                   env_vars, stdout, key_vars, footer_vars, keys_vars>>

\* action_copy_json (key c): the text of the pointer line, formatted for the
\* current copy format, goes to the clipboard; each refusal is a notification.
action_copy_json ==
    /\ ~app_exit
    /\ Len(run_calls) < MaxCopies
    /\ IF ~show_panel
       THEN /\ notice' = "Open the line panel (Enter) to view/copy JSON"
            /\ UNCHANGED <<format_vars, copy_text, run_calls, result, call_exc>>
       ELSE IF pointer_line = None
       THEN /\ notice' = "No line selected"
            /\ UNCHANGED <<format_vars, copy_text, run_calls, result, call_exc>>
       ELSE LET l == get_text(pointer_line)
                r == format_line_for_copy(l, copy_raw)
            IN  /\ line' = l /\ raw' = copy_raw /\ out' = r.out /\ exc' = r.exc
                /\ IF r.exc = "ValueError"
                   THEN /\ notice' = "Current line is not valid JSON"
                        /\ UNCHANGED <<copy_text, run_calls, result, call_exc>>
                   ELSE \E outcome \in RunOutcomes, tk_outcome \in TkOutcomes :
                          LET c == copy_to_clipboard(r.out, outcome, tk_outcome)
                          IN  /\ copy_text' = r.out
                              /\ run_calls' = run_calls \o c.calls
                              /\ result' = c.result
                              /\ call_exc' = c.exc
                              /\ notice' = IF c.result.ok
                                           THEN IF copy_raw
                                                THEN "Copied Raw JSON to clipboard"
                                                ELSE "Copied Pretty JSON to clipboard"
                                           ELSE "Copy failed: " \o c.result.err[1]
    /\ last' = "action_copy_json"
    /\ UNCHANGED <<can_tail, tail, show_find, show_filter, show_panel, copy_raw,
                   info_message, info_display, bar_mounted, bar_complete, loading,
                   footer_line_no, app_exit, error, engine_vars, queue>>
    /\ UNCHANGED <<find_vars, filter_vars, search_vars, filter_dialog, session_vars,
                   env_vars, stdout, key_vars, footer_vars, keys_vars>>

\* The find handler assigning its case flag to the filter's as well.
find_dialog_update_shared_case(event) ==
    /\ ~app_exit
    /\ LET p0 == <<find, regex, case_sensitive>>
           p1 == SetPattern(p0, event.find)
           p2 == SetIsRegex(p1, event.regex)
           p3 == SetCaseSensitive(p2, event.case_sensitive)
       IN  /\ find' = p3[1] /\ regex' = p3[2] /\ case_sensitive' = p3[3]
           /\ filter_case_sensitive' = event.case_sensitive
           /\ notice' = IF p1[1] # event.find \/ p2[2] # event.regex
                        THEN "Invalid regular expression" ELSE notice
    /\ last' = "find_dialog_update"
    /\ UNCHANGED <<can_tail, tail, show_find, show_filter, show_panel, copy_raw,
                   info_message, info_display, bar_mounted, bar_complete, loading,
                   footer_line_no, app_exit, error, engine_vars, queue,
                   filter_text, filter_regex, search_vars, filter_dialog, rest_vars>>

\* @on(FindDialog.Update): the three attributes are assigned in turn.
find_dialog_update(event) ==
    /\ ~app_exit
    /\ LET p0 == <<find, regex, case_sensitive>>
           p1 == SetPattern(p0, event.find)
           p2 == SetIsRegex(p1, event.regex)
           p3 == SetCaseSensitive(p2, event.case_sensitive)
       IN  /\ find' = p3[1] /\ regex' = p3[2] /\ case_sensitive' = p3[3]
           /\ notice' = IF p1[1] # event.find \/ p2[2] # event.regex
                        THEN "Invalid regular expression" ELSE notice
    /\ last' = "find_dialog_update"
    /\ UNCHANGED <<can_tail, tail, show_find, show_filter, show_panel, copy_raw,
                   info_message, info_display, bar_mounted, bar_complete, loading,
                   footer_line_no, app_exit, error, engine_vars, queue,
                   filter_vars, search_vars, filter_dialog, rest_vars>>

\* @on(FilterDialog.Update): the three attributes are assigned in turn.  The
\* dialog's own inputs are the dialog's to change.
filter_dialog_update(event) ==
    /\ ~app_exit
    /\ LET p0 == <<filter_text, filter_regex, filter_case_sensitive>>
           p1 == SetPattern(p0, event.filter_text)
           p2 == SetIsRegex(p1, event.regex)
           p3 == SetCaseSensitive(p2, event.case_sensitive)
       IN  /\ filter_text' = p3[1] /\ filter_regex' = p3[2]
           /\ filter_case_sensitive' = p3[3]
           /\ notice' = IF p1[1] # event.filter_text \/ p2[2] # event.regex
                        THEN "Invalid regular expression" ELSE notice
    /\ last' = "filter_dialog_update"
    /\ UNCHANGED <<can_tail, tail, show_find, show_filter, show_panel, copy_raw,
                   info_message, info_display, bar_mounted, bar_complete, loading,
                   footer_line_no, app_exit, error, engine_vars, queue,
                   find_vars, search_vars, rest_vars>>

\* @on(FindDialog.MovePointer)
move_pointer(direction) ==
    /\ ~app_exit /\ Room
    /\ \E y \in ScrollOffsets : advance_search(direction, y)
    /\ last' = "move_pointer"
    /\ UNCHANGED <<view_vars, files, scanned, lines_scanned, scan_done, merged, texts,
                   find_vars, filter_vars, filter_dialog, rest_vars>>

\* Keys LogLines turns into messages for the view: escape and enter.
press_escape ==
    /\ ~app_exit
    /\ Room
    /\ queue' = Post(queue, <<DismissOverlay>>)
    /\ last' = "press_escape"
    /\ UNCHANGED ext_vars
    /\ UNCHANGED <<view_vars, engine_vars>>

press_enter ==
    /\ ~app_exit
    /\ Room
    /\ queue' = Post(queue, <<SelectLine>>)
    /\ last' = "press_enter"
    /\ UNCHANGED ext_vars
    /\ UNCHANGED <<view_vars, engine_vars>>

(* --------------------------- specifications --------------------------- *)
\* The state after LogView.__init__ and compose, for the given files.
(* ------------------------ KeyDebug (log_view.py) ---------------------- *)
\* The state of the widget after an operation on its message.
KeyDebugState(l, ht, ts, su) ==
    [label |-> l, hide_timer |-> ht, timers |-> ts, since_update |-> su]
\* set_timer(hide_timeout, callback): a new pending timer.
NewTimer(ts) ==
    [id   |-> CHOOSE i \in 1..(Cardinality(ts) + 1) : \A t \in ts : t.id # i,
     left |-> HideTimeout]
\* Timer.stop()
Stop(ts, ht) == {t \in ts : t.id # ht}

\* watch_message leaving the timer it replaces running.
KeyDebug_watch_message_keep_timer(message, ht, ts) ==
    IF ~is_mounted THEN KeyDebugState(label, ht, ts, since_update)
    ELSE IF message # ""
    THEN KeyDebugState(message, NewTimer(ts).id, ts \cup {NewTimer(ts)}, 0)
    ELSE KeyDebugState(message, None, ts, 0)

\* KeyDebug.watch_message(message), with _hide_timer = ht and ts pending.
KeyDebug_watch_message(message, ht, ts) ==
    IF ~is_mounted THEN KeyDebugState(label, ht, ts, since_update)
    ELSE LET stopped == Stop(ts, ht)
         IN  IF message # ""
             THEN KeyDebugState(message, NewTimer(stopped).id,
                                stopped \cup {NewTimer(stopped)}, 0)
             ELSE KeyDebugState(message, None, stopped, 0)

\* KeyDebug.message = message: the reactive calls its watcher when the value
\* changes.
KeyDebug_set_message(message, ht, ts) ==
    IF message = key_message THEN KeyDebugState(label, ht, ts, since_update)
    ELSE KeyDebug_watch_message(message, ht, ts)

\* KeyDebug._clear_message(), with ts pending.
KeyDebug_clear_message(ts) ==
    LET w == KeyDebug_set_message("", hide_timer, ts)
    IN  /\ key_message' = ""
        /\ label' = w.label
        /\ since_update' = w.since_update
        /\ timers' = Stop(w.timers, w.hide_timer)
        /\ hide_timer' = None

\* The widget is mounted with its empty Label.
KeyDebug_on_mount ==
    /\ ~app_exit /\ ~is_mounted
    /\ is_mounted' = TRUE
    /\ last' = "KeyDebug_on_mount"
    /\ UNCHANGED <<view_vars, engine_vars, queue, find_vars, filter_vars, search_vars,
                   filter_dialog, session_vars, format_vars, copy_vars, footer_vars, keys_vars>>
    /\ UNCHANGED <<show_key_debug, visible, key_message, label, hide_timer, timers,
                   since_update>>

\* action_toggle_key_debug (ctrl+k) and the watchers of show_key_debug.
action_toggle_key_debug ==
    /\ ~app_exit
    /\ show_key_debug' = ~show_key_debug
    /\ visible' = show_key_debug'
    /\ notice' = IF show_key_debug' THEN "Key debug: on" ELSE "Key debug: off"
    /\ last' = "action_toggle_key_debug"
    /\ UNCHANGED <<can_tail, tail, show_find, show_filter, show_panel, copy_raw,
                   info_message, info_display, bar_mounted, bar_complete, loading,
                   footer_line_no, app_exit, error, engine_vars, queue>>
    /\ UNCHANGED <<find_vars, filter_vars, search_vars, filter_dialog, session_vars,
                   format_vars, copy_vars, footer_vars, keys_vars>>
    /\ UNCHANGED <<is_mounted, key_message, label, hide_timer, timers, since_update>>

\* @on(events.Key): the key and its modifiers become KeyDebug's message.
on_key_event(key, mod_text) ==
    /\ ~app_exit
    /\ IF ~show_key_debug
       THEN UNCHANGED <<key_message, label, hide_timer, timers, since_update>>
       ELSE LET message == "Key: " \o key \o " | Mods: " \o mod_text
                w == KeyDebug_set_message(message, hide_timer, timers)
            IN  /\ key_message' = message
                /\ label' = w.label
                /\ hide_timer' = w.hide_timer
                /\ timers' = w.timers
                /\ since_update' = w.since_update
    /\ last' = "on_key_event"
    /\ UNCHANGED <<view_vars, engine_vars, queue, find_vars, filter_vars, search_vars,
                   filter_dialog, session_vars, format_vars, copy_vars, footer_vars, keys_vars>>
    /\ UNCHANGED <<show_key_debug, visible, is_mounted>>

\* KeyDebug.on_click: a click on the visible widget clears the message.
KeyDebug_on_click ==
    /\ ~app_exit /\ is_mounted /\ visible
    /\ KeyDebug_clear_message(timers)
    /\ last' = "KeyDebug_on_click"
    /\ UNCHANGED <<view_vars, engine_vars, queue, find_vars, filter_vars, search_vars,
                   filter_dialog, session_vars, format_vars, copy_vars, footer_vars, keys_vars>>
    /\ UNCHANGED <<show_key_debug, visible, is_mounted>>

\* A pending timer has run out: it leaves the pending timers and its
\* callback _clear_message runs.
TimerFire ==
    /\ ~app_exit
    /\ \E t \in timers :
         /\ t.left = 0
         /\ KeyDebug_clear_message(timers \ {t})
    /\ last' = "TimerFire"
    /\ UNCHANGED <<view_vars, engine_vars, queue, find_vars, filter_vars, search_vars,
                   filter_dialog, session_vars, format_vars, copy_vars, footer_vars, keys_vars>>
    /\ UNCHANGED <<show_key_debug, visible, is_mounted>>

\* A second passes; a timer that has run out fires before the next one does.
Tick ==
    /\ ~app_exit
    /\ timers # {} /\ \A t \in timers : t.left > 0
    /\ timers' = {[t EXCEPT !.left = @ - 1] : t \in timers}
    /\ since_update' = since_update + 1
    /\ last' = "Tick"
    /\ UNCHANGED <<view_vars, engine_vars, queue, find_vars, filter_vars, search_vars,
                   filter_dialog, session_vars, format_vars, copy_vars, footer_vars, keys_vars>>
    /\ UNCHANGED <<show_key_debug, visible, is_mounted, key_message, label, hide_timer>>

(* ------------------- LogFooter.mount_keys: the steps ------------------ *)
\* What the footer's keys leave alone.
beside_keys == <<view_vars, engine_vars, queue, find_vars, filter_vars, search_vars,
                 filter_dialog, session_vars, format_vars, copy_vars, key_vars,
                 footer_vars>>

\* LogFooter.on_mount: the watchers of screen.focused and screen.stack_updates
\* are set up, and call_after_refresh(self.mount_keys).
Watching == \E i \in Invocations : mount_pc[i] # "none"
LogFooter_on_mount ==
    /\ ~app_exit /\ ~Watching
    /\ mount_pc' = Scheduled
    /\ last' = "LogFooter_on_mount"
    /\ UNCHANGED <<beside_keys, screen_active, bindings, lock, key_container>>

\* The focus moves on the footer's screen: the active bindings change and the
\* watcher of screen.focused calls mount_keys.
focused_changed ==
    /\ ~app_exit /\ Watching /\ screen_active /\ Free # {}
    /\ bindings' \in FocusBindings \ {bindings}
    /\ mount_pc' = Scheduled
    /\ last' = "focused_changed"
    /\ UNCHANGED <<beside_keys, screen_active, lock, key_container>>

\* action_goto: a screen is pushed over the view; the watcher of
\* screen.stack_updates calls mount_keys.
action_goto ==
    /\ ~app_exit /\ Watching /\ screen_active /\ Free # {}
    /\ screen_active' = FALSE
    /\ bindings' = ModalBindings
    /\ mount_pc' = Scheduled
    /\ last' = "action_goto"
    /\ UNCHANGED <<beside_keys, lock, key_container>>

\* The pushed screen is dismissed; stack_updates changes again.
pop_screen ==
    /\ ~app_exit /\ Watching /\ ~screen_active /\ Free # {}
    /\ screen_active' = TRUE
    /\ bindings' \in FocusBindings
    /\ mount_pc' = Scheduled
    /\ last' = "pop_screen"
    /\ UNCHANGED <<beside_keys, lock, key_container>>

\* mount_keys starts: it returns at once when its screen is not the active one,
\* else it goes for the lock.
mount_keys_begin(i) ==
    /\ mount_pc[i] = "sched"
    /\ mount_pc' = [mount_pc EXCEPT ![i] = IF screen_active THEN "wait" ELSE "done"]
    /\ last' = "mount_keys_begin"
    /\ UNCHANGED <<beside_keys, screen_active, bindings, lock, key_container>>

\* "async with self.lock": entered when the lock is free.
mount_keys_acquire(i) ==
    /\ mount_pc[i] = "wait"
    /\ ~Locked
    /\ lock' = i
    /\ mount_pc' = [mount_pc EXCEPT ![i] = "remove"]
    /\ last' = "mount_keys_acquire"
    /\ UNCHANGED <<beside_keys, screen_active, bindings, key_container>>

\* await key_container.query("*").remove()
mount_keys_remove(i) ==
    /\ mount_pc[i] = "remove"
    /\ key_container' = <<>>
    /\ mount_pc' = [mount_pc EXCEPT ![i] = "mount"]
    /\ last' = "mount_keys_remove"
    /\ UNCHANGED <<beside_keys, screen_active, bindings, lock>>

\* await key_container.mount_all([...]), and the lock released on the way out.
mount_keys_mount(i) ==
    /\ mount_pc[i] = "mount"
    /\ key_container' = key_container \o FooterKeys
    /\ lock' = 0
    /\ mount_pc' = [mount_pc EXCEPT ![i] = "done"]
    /\ last' = "mount_keys_mount"
    /\ UNCHANGED <<beside_keys, screen_active, bindings>>

MountKeysBegin == \E i \in Invocations : mount_keys_begin(i)
MountKeysAcquire == \E i \in Invocations : mount_keys_acquire(i)
MountKeysRemove == \E i \in Invocations : mount_keys_remove(i)
MountKeysMount == \E i \in Invocations : mount_keys_mount(i)

\* KeyDebug.__init__ and the reactive defaults; the widget is not mounted yet.
KeyIdle ==
    /\ show_key_debug = FALSE /\ visible = FALSE /\ is_mounted = FALSE
    /\ key_message = "" /\ label = ""
    /\ hide_timer = None /\ timers = {} /\ since_update = 0

InitCore(fs, tx) ==
    /\ can_tail \in BOOLEAN
    /\ tail = FALSE
    /\ show_find = FALSE /\ show_filter = FALSE /\ show_panel = FALSE
    /\ copy_raw = FALSE
    /\ pointer_line = None
    /\ info_message = 0 /\ info_display = FALSE
    /\ bar_mounted = TRUE /\ bar_complete = 0
    /\ loading = TRUE
    /\ footer_line_no = None
    /\ app_exit = FALSE
    /\ notice = "" /\ error = ""
    /\ queue = <<>>
    /\ files = fs
    /\ scanned = [f \in FileIds |-> FALSE]
    /\ lines_scanned = [f \in FileIds |-> 0]
    /\ scan_done = FALSE
    /\ merged = <<>>
    /\ texts = tx
    /\ last = "init"
    /\ find = <<>> /\ regex = FALSE /\ case_sensitive = FALSE
    /\ filter_text = <<>> /\ filter_regex = FALSE /\ filter_case_sensitive = FALSE
    /\ filter_dialog = [filter_text |-> <<>>, regex |-> FALSE, case_sensitive |-> FALSE]
    /\ not_found = FALSE /\ examined = 0
    /\ handle_open = [f \in FileIds |-> TRUE]
    /\ get_text_call = "none"
    /\ KeyIdle
    /\ FooterIdle
    /\ KeysIdle

\* No call of _format_line_for_copy has been made.
FormatIdle == line = <<>> /\ raw = FALSE /\ out = <<>> /\ exc = ""

\* No clipboard call has been made, in the given environment.
NoResult == [ok |-> FALSE, err |-> <<>>]
CopyIdle(p, w, method, t) ==
    /\ platform = p /\ which = w /\ copy_method = method
    /\ copy_text = t
    /\ run_calls = <<>> /\ result = NoResult /\ call_exc = "" /\ stdout = <<>>

InitSession(fs, tx) ==
    InitCore(fs, tx) /\ FormatIdle /\ CopyIdle("linux", {}, "", <<>>)

\* The same, every line reading NewLineText.
InitView(fs) == InitSession(fs, [f \in FileIds |-> [i \in 1..Len(fs[f]) |-> NewLineText]])

\* A session over two files of one line each.
Init == InitView([f \in FileIds |-> <<1>>])

\* The tail controller: scan, watcher, tail requests and their events.
Next ==
    \/ \E f \in FileIds : ScanFile(f)
    \/ ScanFinish
    \/ WatcherGrow
    \/ MoveCursor
    \/ action_quit
    \/ action_toggle_tail
    \/ InfoOverlay_on_click
    \/ on_tail_file
    \/ on_pending_lines
    \/ on_scan_progress
    \/ on_scan_complete
    \/ pointer_moved

Spec == Init /\ [][Next]_vars

\* The view: the tail controller's events together with the dialog, panel
\* and copy-format state of LogView.
NextView ==
    \/ \E f \in FileIds : ScanFile(f)
    \/ ScanFinish
    \/ WatcherGrow
    \/ action_toggle_tail
    \/ action_show_find_dialog
    \/ action_show_filter_dialog
    \/ action_toggle_copy_format
    \/ press_enter
    \/ select_line
    \/ on_pending_lines
    \/ on_scan_progress
    \/ on_scan_complete
    \/ pointer_moved

SpecView == Init /\ [][NextView]_vars

\* The merged index: sessions over files of every content within the bounds,
\* and the files of the design document's scenario (A at 1,3,5; B at 2,4).
\* A file holds at most half of the index's capacity when the session opens.
InitialContents == UNION {[1..n -> Timestamps] : n \in 0..(MaxLines \div 2)}
ExampleFiles == [f \in FileIds |-> IF f = 1 THEN <<1, 3, 5>> ELSE <<2, 4>>]

InitIndex ==
    /\ \E fs \in [FileIds -> InitialContents] \cup {ExampleFiles} : InitView(fs)
    /\ can_tail

NextIndex ==
    \/ \E f \in FileIds : ScanFile(f)
    \/ ScanFinish
    \/ WatcherGrowAny
    \/ on_pending_lines
    \/ on_scan_progress
    \/ on_scan_complete
    \/ pointer_moved

SpecIndex == InitIndex /\ [][NextIndex]_vars

\* The find dialog over a session of two files, two lines each, of contents
\* drawn from the samples.
ContentSamples == {<< <<"a">>, <<"a">> >>, << <<"a">>, <<"A", "b">> >>}
Patterns == {<<"a">>, <<"A">>, <<".">>, <<"(">>}
FindEvents == [find : Patterns, regex : BOOLEAN, case_sensitive : BOOLEAN]
FilterEvents == [filter_text : Patterns, regex : BOOLEAN, case_sensitive : BOOLEAN]
Directions == {1, -1}

InitFind ==
    /\ \E tx \in [FileIds -> ContentSamples] :
         InitSession([f \in FileIds |-> <<1, 2>>], tx)
    /\ can_tail

FindDialogUpdate == \E event \in FindEvents : find_dialog_update(event)
\* The user changes one input of the filter dialog, which posts an Update
\* carrying the values of all three.
OneInputChanged(old, new) ==
    Cardinality({k \in {"filter_text", "regex", "case_sensitive"} : old[k] # new[k]}) = 1
FilterDialogUpdate ==
    \E event \in FilterEvents :
        /\ OneInputChanged(filter_dialog, event)
        /\ filter_dialog' = event
        /\ filter_dialog_update(event)
MovePointer == \E direction \in Directions : move_pointer(direction)

NextFind ==
    \/ \E f \in FileIds : ScanFile(f)
    \/ ScanFinish
    \/ FindDialogUpdate
    \/ MovePointer
    \/ on_tail_file
    \/ on_scan_progress
    \/ on_scan_complete
    \/ pointer_moved

SpecFind == InitFind /\ [][NextFind]_vars

\* The filter dialog over the same sessions.
NextFilter ==
    \/ \E f \in FileIds : ScanFile(f)
    \/ ScanFinish
    \/ FilterDialogUpdate
    \/ on_scan_progress
    \/ on_scan_complete
    \/ pointer_moved

SpecFilter == InitFind /\ [][NextFilter]_vars

\* The session's life: scan, watch, blocking reads and shutdown.
NextSession ==
    \/ \E f \in FileIds : ScanFile(f)
    \/ ScanFinish
    \/ WatcherGrow
    \/ GetText
    \/ get_text_resume
    \/ action_quit
    \/ close_files
    \/ on_pending_lines
    \/ on_scan_progress
    \/ on_scan_complete
    \/ pointer_moved

SpecSession == Init /\ [][NextSession]_vars

\* _format_line_for_copy applied to every line of at most MaxLineLen
\* characters, in both modes.
JsonChars == {"[", "]", "1", ","}
Lines == UNION {[1..n -> JsonChars] : n \in 0..MaxLineLen}

InitFormat ==
    /\ InitCore([f \in FileIds |-> <<>>], [f \in FileIds |-> <<>>])
    /\ can_tail
    /\ line \in Lines /\ raw \in BOOLEAN
    /\ out = <<>> /\ exc = ""
    /\ CopyIdle("linux", {}, "", <<>>)

FormatLine ==
    /\ last = "init"
    /\ LET r == format_line_for_copy(line, raw)
       IN  out' = r.out /\ exc' = r.exc
    /\ last' = "format_line_for_copy"
    /\ UNCHANGED <<view_vars, engine_vars, queue, find_vars, filter_vars, search_vars,
                   filter_dialog, session_vars, line, raw, copy_vars, key_vars, footer_vars, keys_vars>>

SpecFormat == InitFormat /\ [][FormatLine]_vars

\* The module-level clipboard functions called in every environment.
Platforms == {"darwin", "win32", "linux"}
Utilities == {"wl-copy", "xclip", "xsel"}
CopyMethods == {"", "osc52"}
CopyTexts == {<<"1">>, <<"e'">>, <<"[", "1", "]">>}

InitClipboard ==
    /\ InitCore([f \in FileIds |-> <<>>], [f \in FileIds |-> <<>>])
    /\ can_tail
    /\ FormatIdle
    /\ \E p \in Platforms, w \in SUBSET Utilities, method \in CopyMethods, t \in CopyTexts :
         CopyIdle(p, w, method, t)

\* A call of _copy_to_clipboard(copy_text).
CopyToClipboard ==
    /\ Len(run_calls) < MaxCalls
    /\ \E outcome \in RunOutcomes, tk_outcome \in TkOutcomes :
         LET c == copy_to_clipboard(copy_text, outcome, tk_outcome)
         IN  /\ run_calls' = run_calls \o c.calls
             /\ result' = c.result
             /\ call_exc' = c.exc
    /\ last' = "copy_to_clipboard"
    /\ UNCHANGED <<view_vars, engine_vars, queue, find_vars, filter_vars, search_vars,
                   filter_dialog, session_vars, format_vars, env_vars, copy_text, stdout,
                   key_vars, footer_vars, keys_vars>>

\* A call of log_view._send_osc52(copy_text, max_bytes=max_bytes): the module
\* defines no such name, and the attribute lookup raises.
send_osc52(t, max_bytes) ==
    /\ call_exc' = "AttributeError"
    /\ result' = NoResult
    /\ last' = "send_osc52"
    /\ UNCHANGED <<view_vars, engine_vars, queue, find_vars, filter_vars, search_vars,
                   filter_dialog, session_vars, format_vars, env_vars, copy_text,
                   run_calls, stdout, key_vars, footer_vars, keys_vars>>

SendOsc52 == \E max_bytes \in 0..MaxBytes : send_osc52(copy_text, max_bytes)

NextClipboard ==
    \/ CopyToClipboard
    \/ SendOsc52

SpecClipboard == InitClipboard /\ [][NextClipboard]_vars

\* Copying from the detail panel: two files of one line each, of valid or
\* invalid JSON, on Linux with xclip installed.
CopyEnvironments == {{"xclip"}}

InitCopy ==
    /\ InitCore([f \in FileIds |-> <<f>>], [f \in FileIds |-> <<IF f = 1 THEN <<"[", "1", "]">> ELSE <<"[", "1">>>>])
    /\ can_tail
    /\ FormatIdle
    /\ \E w \in CopyEnvironments : CopyIdle("linux", w, "", <<>>)

NextCopy ==
    \/ \E f \in FileIds : ScanFile(f)
    \/ ScanFinish
    \/ MoveCursor
    \/ press_enter
    \/ action_toggle_copy_format
    \/ action_copy_json
    \/ on_tail_file
    \/ on_scan_progress
    \/ on_scan_complete
    \/ pointer_moved
    \/ select_line

SpecCopy == InitCopy /\ [][NextCopy]_vars

\* The key-debug overlay: keys pressed, with or without ctrl, while seconds
\* pass.
Keys == {"a", "b"}
ModTexts == {"none", "ctrl"}
OnKeyEvent == \E key \in Keys, mod_text \in ModTexts : on_key_event(key, mod_text)

NextKeyDebug ==
    \/ KeyDebug_on_mount
    \/ action_toggle_key_debug
    \/ OnKeyEvent
    \/ KeyDebug_on_click
    \/ TimerFire
    \/ Tick

\* Time passes and timers that have run out fire.
SpecKeyDebug ==
    /\ Init /\ [][NextKeyDebug]_vars
    /\ WF_vars(Tick) /\ WF_vars(TimerFire)

\* The dialogs, the detail panel and the cursor, opened and dismissed.
NextOverlay ==
    \/ \E f \in FileIds : ScanFile(f)
    \/ ScanFinish
    \/ MoveCursor
    \/ action_show_find_dialog
    \/ action_show_filter_dialog
    \/ press_enter
    \/ press_escape
    \/ select_line
    \/ dismiss_overlay
    \/ on_tail_file
    \/ on_scan_progress
    \/ on_scan_complete
    \/ pointer_moved

SpecOverlay == Init /\ [][NextOverlay]_vars

\* Both dialogs over a session of two files of one line each, with a cursor.
InitFindFilter ==
    /\ InitSession([f \in FileIds |-> <<f>>], [f \in FileIds |-> << <<"a">> >>])
    /\ can_tail

FindFilterPatterns == {<<"a">>, <<"(">>}
FindDialogUpdateSome ==
    \E event \in FindEvents : event.find \in FindFilterPatterns /\ find_dialog_update(event)
FilterDialogUpdateSome ==
    \E event \in FilterEvents :
        /\ event.filter_text \in FindFilterPatterns
        /\ OneInputChanged(filter_dialog, event)
        /\ filter_dialog' = event
        /\ filter_dialog_update(event)

NextFindFilter ==
    \/ \E f \in FileIds : ScanFile(f)
    \/ ScanFinish
    \/ MoveCursor
    \/ FindDialogUpdateSome
    \/ FilterDialogUpdateSome
    \/ on_tail_file
    \/ on_scan_progress
    \/ on_scan_complete
    \/ pointer_moved

SpecFindFilter == InitFindFilter /\ [][NextFindFilter]_vars

\* The footer's keys while the focus moves and a screen is pushed and
\* dismissed.
NextKeys ==
    \/ LogFooter_on_mount
    \/ focused_changed
    \/ action_goto
    \/ pop_screen
    \/ MountKeysBegin
    \/ MountKeysAcquire
    \/ MountKeysRemove
    \/ MountKeysMount

SpecKeys == Init /\ [][NextKeys]_vars

(* ------------------------- tail controller ---------------------------- *)
TotalLines(fs) == Len(fs[1]) + Len(fs[2])
Posted(type) == {i \in (Len(queue) + 1)..Len(queue') : queue'[i].type = type}
Pending(type) == {i \in 1..Len(queue) : queue[i].type = type}

\* C1: a request to start tailing (the toggle-tail action, or a TailFile
\* message asking for tail) made while not tailing and with can_tail false
\* leaves tail off and reports "Can't tail this file"; hence tail is never
\* true while can_tail is false.
C1_TailRequestNeedsCanTail == tail => can_tail

\* C2: once ScanComplete has been handled the controller has left Scanning and
\* tail equals the session's can_tail flag (Tailing if set, Idle if not).
C2_ScanCompleteDefaultsToCanTail ==
    (last = "on_scan_complete" /\ error = "") => (~loading /\ tail = can_tail)

\* C3: the controller starts in Scanning with tail off, and while it is still
\* Scanning (ScanComplete not yet handled) no user action makes tail true.
C3_NoTailBeforeScanComplete == loading => ~tail

\* C4: with can_tail true the toggle-tail action moves Tailing to Idle and
\* Idle to Tailing (tail is negated), and it changes none of show_find,
\* show_filter, show_panel, copy_raw and the pointer line.
C4_ToggleTailFlipsOnlyTail ==
    [][(can_tail /\ action_toggle_tail) =>
         /\ tail' = ~tail
         /\ UNCHANGED <<show_find, show_filter, show_panel, copy_raw, pointer_line>>]_vars

\* C4 witness: the toggle has just paused a tailing view whose dialogs, panel,
\* copy format and pointer line are all set.
C4_Witness ==
    /\ last = "action_toggle_tail" /\ can_tail /\ ~loading /\ ~tail
    /\ show_find /\ show_filter /\ show_panel /\ copy_raw /\ pointer_line # None

\* C5: while tailing, a watched file growing by K newline-terminated lines
\* fires one PendingLines event of count K and moves the cursor to the newest
\* global line (the last line of the index, which has grown by K).
C5_TailingGrowthMovesCursor ==
    [][(tail /\ files' # files) =>
         LET K == TotalLines(files') - TotalLines(files)
         IN  /\ Cardinality(Posted("PendingLines")) = 1
             /\ \A i \in Posted("PendingLines") : queue'[i] = PendingLines(K)
             /\ Len(merged') = Len(merged) + K
             /\ pointer_line' = Len(merged') - 1]_vars

\* C5 witness: a tailing view whose file grew by two lines, from two lines to
\* four: the cursor is on global line 3 and PendingLines(2) is in flight.
C5_Witness ==
    /\ last = "Grow" /\ tail /\ ~loading
    /\ Len(merged) = 4 /\ pointer_line = 3
    /\ \E i \in Pending("PendingLines") : queue[i] = PendingLines(2)

\* C6: while Idle (scan complete, tail off, session open) handling a
\* PendingLines event shows its count in the new-lines overlay and leaves the
\* pointer line, the tail flag and the dialog and panel flags unchanged.
C6_IdlePendingLinesReportsOnly ==
    [][(~loading /\ ~tail /\ ~app_exit /\ on_pending_lines) =>
         /\ info_message' = Head(queue).count
         /\ info_display'
         /\ UNCHANGED <<pointer_line, tail, show_find, show_filter, show_panel>>]_vars

\* C6 witness: an Idle view with a pointer line and the panel and dialogs
\* open has just handled PendingLines(2).
C6_Witness ==
    /\ last = "on_pending_lines" /\ ~loading /\ ~tail
    /\ info_message = 2 /\ info_display
    /\ pointer_line # None /\ show_panel /\ show_find /\ show_filter

KeyBefore(a, b) ==
    LET ka == <<files[a[1]][a[2] + 1], a[1], a[2]>>
        kb == <<files[b[1]][b[2] + 1], b[1], b[2]>>
    IN  \/ ka[1] < kb[1]
        \/ ka[1] = kb[1] /\ ka[2] < kb[2]
        \/ ka[1] = kb[1] /\ ka[2] = kb[2] /\ ka[3] < kb[3]

ScannedRefs == {r \in FileIds \X (0..5) : r[2] < lines_scanned[r[1]]}
ScannedCount == lines_scanned[1] + lines_scanned[2]

\* C9: a watched file growing by K newline-terminated lines makes the merged
\* index exactly K entries longer, the new entries being that file's new lines
\* in file order, and every global line number that existed before still maps
\* to the same (file, local line), whichever file grows and in whatever order.
C9_AppendKeepsGlobalLines ==
    [][files' # files =>
         LET K == TotalLines(files') - TotalLines(files)
         IN  /\ Len(merged') = Len(merged) + K
             /\ \A n \in 1..Len(merged) : merged'[n] = merged[n]
             /\ \E f \in FileIds :
                  \A i \in 1..K : merged'[Len(merged) + i] = <<f, Len(files[f]) + i - 1>>]_vars

\* C9 witness: both files have grown, and a line appended at the end of the
\* index carries an earlier timestamp than a line before it.
C9_Witness ==
    /\ last = "Grow"
    /\ \A f \in FileIds : Len(files[f]) > lines_scanned[f]
    /\ \E n \in 1..(Len(merged) - 1) :
         /\ n >= ScannedCount
         /\ Ts(files, merged[n]) > Ts(files, merged[n + 1])

\* The order a stable merge-sort by (timestamp, file-declaration order,
\* in-file order) gives the scanned lines: each once, each before the next.
ScanOrderIsStableMerge ==
    /\ Len(merged) >= ScannedCount
    /\ {merged[n] : n \in 1..ScannedCount} = ScannedRefs
    /\ \A n \in 1..(ScannedCount - 1) : KeyBefore(merged[n], merged[n + 1])

ExampleOrder == <<<<1, 0>>, <<2, 0>>, <<1, 1>>, <<2, 1>>, <<1, 2>>>>

\* C10 as stated: the global lines the scan produces are in stable merge-sort
\* order by (timestamp, file-declaration order, in-file order); A at 1,3,5 and
\* B at 2,4 give A1,B1,A2,B2,A3 and index_to_span(2) is B's first line.
C10_AsStated ==
    scan_done =>
        /\ ScanOrderIsStableMerge
        /\ files = ExampleFiles =>
             (merged = ExampleOrder /\ index_to_span(2) = <<2, 0>>)

\* C10 as amended: the global lines the scan produces are in stable merge-sort
\* order by (timestamp, file-declaration order, in-file order); A at 1,3,5 and
\* B at 2,4 give A1,B1,A2,B2,A3 on global lines 0..4, so index_to_span(1) is
\* B's first line and index_to_span(2) is A's second line.  (Lines appended
\* after the scan follow in arrival order, C9.)
C10_ScanOrderIsStableMerge ==
    scan_done =>
        /\ ScanOrderIsStableMerge
        /\ files = ExampleFiles =>
             /\ merged = ExampleOrder
             /\ index_to_span(1) = <<2, 0>>
             /\ index_to_span(2) = <<1, 1>>

\* C10 witness: the scenario's files are merged on global lines 0..4, and
\* global line 1 is B's first line.
C10_Witness ==
    /\ scan_done /\ files = ExampleFiles
    /\ Len(merged) = 5 /\ index_to_span(1) = <<2, 0>>

(* ---------------------------- find and filter ------------------------- *)
\* C11: advance_search started from any cursor position (or from none)
\* terminates after looking at no more lines than the index holds (one full
\* wraparound); if at least one line matches the find predicate the cursor
\* lands on a matching line, and if no line matches the cursor is unchanged
\* and the not-found signal is produced.
C11_AdvanceSearchWrapsOnce ==
    [][MovePointer =>
         /\ examined' <= Len(merged)
         /\ IF FindMatches # {}
            THEN pointer_line' \in FindMatches /\ ~not_found'
            ELSE pointer_line' = pointer_line /\ not_found']_vars

\* C11 witness: a search that went once around the whole index and landed
\* back on the only matching line, the one it started from.
C11_Witness ==
    /\ last = "move_pointer" /\ ~not_found
    /\ Len(merged) = 4 /\ examined = 4
    /\ FindMatches = {pointer_line}
    /\ queue = <<>> /\ footer_line_no = pointer_line

\* C12: a FilterDialog update that sets an invalid regular expression is
\* rejected with a user-facing error, and the filter that was active before it
\* (pattern, regex flag, case flag and the set of matched lines) is left
\* exactly as it was: not disabled, not partially updated.
C12_InvalidRegexKeepsFilter ==
    [][\A event \in FilterEvents :
         (filter_dialog_update(event) /\ event.regex /\ ~CompileOk(event.filter_text)) =>
             /\ notice' = "Invalid regular expression"
             /\ UNCHANGED filter_vars
             /\ FilterMatches' = FilterMatches]_vars

(* ------------------------------ shutdown ------------------------------ *)
\* A step in which a per-file task reads file f: the scanner indexes it or
\* the watcher picks up its growth.
TaskReads(f) == scanned'[f] # scanned[f] \/ files'[f] # files[f]

\* C13: closing the session cancels every per-file scan/watch task, so that
\* no task takes a step after shutdown and none reads a file whose handle is
\* closed; a get_text call in flight at shutdown, or issued after it, ends
\* with SessionClosed and is never left waiting.
C13_ShutdownCancelsTasks ==
    [][/\ \A f \in FileIds : TaskReads(f) => (handle_open[f] /\ ~app_exit)
       /\ app_exit => UNCHANGED <<files, scanned, lines_scanned, scan_done, merged>>
       /\ app_exit' => get_text_call' # "waiting"
       /\ (app_exit /\ GetText) => get_text_call' = "SessionClosed"]_vars

\* C13 witness: the session was shut down in the middle of the scan, with a
\* get_text call waiting: the call has failed with SessionClosed, the handles
\* are released and a file is left unscanned.
C13_Witness ==
    /\ last = "close_files" /\ app_exit
    /\ get_text_call = "SessionClosed"
    /\ \A f \in FileIds : ~handle_open[f]
    /\ \E f \in FileIds : ~scanned[f]

(* ------------------------------- copy --------------------------------- *)
\* JSON written without whitespace, and the values whose text fits a line.
RECURSIVE Compact(_)
RECURSIVE CompactItems(_)
Compact(d) ==
    IF d.type = "int" THEN Decimal(d.v) ELSE <<"[">> \o CompactItems(d.items) \o <<"]">>
CompactItems(items) ==
    IF items = <<>> THEN <<>>
    ELSE Compact(Head(items))
             \o (IF Tail(items) = <<>> THEN <<>> ELSE <<",">> \o CompactItems(Tail(items)))

RECURSIVE Ones(_)
Ones(k) == IF k = 1 THEN 1 ELSE 10 * Ones(k - 1) + 1

RECURSIVE ValuesUpTo(_)
RECURSIVE ItemsUpTo(_)
ValuesUpTo(n) ==
    IF n <= 0 THEN {}
    ELSE {JsonInt(Ones(k)) : k \in 1..n}
             \cup {JsonList(items) : items \in {<<>>} \cup ItemsUpTo(n - 2)}
ItemsUpTo(n) ==
    IF n <= 0 THEN {}
    ELSE UNION {{<<v>>} \cup {<<v>> \o r : r \in ItemsUpTo(n - Len(Compact(v)) - 1)} :
                   v \in ValuesUpTo(n)}

\* The values a line over JsonChars can denote, and the lines that are JSON.
JsonValues == {d \in ValuesUpTo(MaxLineLen) : Len(Compact(d)) <= MaxLineLen}
ValidJson(l) == \E d \in JsonValues : Compact(d) = l
StripWs(t) == SelectSeq(t, LAMBDA c : ~IsWs(c))

\* C15: _format_line_for_copy with raw=True returns the line unchanged for
\* every line, valid JSON or not; with raw=False it returns the pretty-printed
\* JSON (json.dumps with indent 2 of the value the line denotes: the same
\* text with each item on an indented line of its own) for a valid JSON line,
\* and raises ValueError for every line that is not valid JSON.
C15_FormatLineForCopy ==
    last = "format_line_for_copy" =>
        /\ raw => (exc = "" /\ out = line)
        /\ (~raw /\ ValidJson(line)) =>
             /\ exc = ""
             /\ \E d \in JsonValues : Compact(d) = line /\ out = dumps(d, 2)
             /\ StripWs(out) = line
             /\ (Len(line) > 2 /\ Head(line) = "[") =>
                  SubSeq(out, 1, 4) = <<"[", "\n", " ", " ">>
        /\ (~raw /\ ~ValidJson(line)) => exc = "ValueError"

\* C15 witness: the line [1] formatted pretty, each item on its own line.
C15_Witness ==
    /\ last = "format_line_for_copy" /\ ~raw /\ exc = ""
    /\ line = <<"[", "1", "]">>
    /\ out = <<"[", "\n", " ", " ", "1", "\n", "]">>

\* The mechanism the stated priority asks for in the current environment.
Priority == <<"wl-copy", "xclip", "xsel">>
Expected ==
    IF platform = "darwin" THEN "pbcopy"
    ELSE IF platform = "win32" THEN "clip"
    ELSE IF \A i \in 1..Len(Priority) : Priority[i] \notin which THEN "tkinter"
    ELSE Priority[CHOOSE i \in 1..Len(Priority) :
                      Priority[i] \in which /\ \A j \in 1..(i - 1) : Priority[j] \notin which]
NewCalls == SubSeq(run_calls', Len(run_calls) + 1, Len(run_calls'))

\* C16 as stated: _copy_to_clipboard invokes exactly one mechanism, chosen
\* in a fixed priority (pbcopy on macOS, clip on Windows, otherwise the first
\* available of wl-copy, xclip, xsel, Tkinter only when none of them is); on
\* success the mechanism received the UTF-8 encoded text and the call
\* returns (True, None).
C16_AsStated ==
    [][CopyToClipboard =>
         /\ Len(NewCalls) = 1
         /\ NewCalls[1].mechanism = Expected
         /\ NewCalls[1].outcome = "ok" =>
              (NewCalls[1].input = Utf8(copy_text) /\ result' = Success)]_vars

\* C16 as amended: the same selection of exactly one mechanism; on success
\* a clipboard utility received the UTF-8 encoded text on its input, Tkinter
\* received the text itself (a str, not encoded), and the call returns
\* (True, None).
C16_OneMechanismByPriority ==
    [][CopyToClipboard =>
         /\ Len(NewCalls) = 1
         /\ NewCalls[1].mechanism = Expected
         /\ NewCalls[1].outcome = "ok" =>
              /\ NewCalls[1].input = IF Expected = "tkinter" THEN Str(copy_text)
                                     ELSE Utf8(copy_text)
              /\ result' = Success]_vars

\* C16 witness: on Linux with xclip and xsel installed but not wl-copy, xclip
\* alone was run, on the two UTF-8 bytes of a non-ASCII character.
C16_Witness ==
    /\ last = "copy_to_clipboard" /\ platform = "linux" /\ which = {"xclip", "xsel"}
    /\ copy_text = <<"e'">>
    /\ run_calls = <<Invocation("xclip", [type |-> "bytes", data |-> <<195, 169>>], "ok")>>
    /\ result = Success

\* C17: _copy_to_clipboard never raises: it returns (True, None) or (False,
\* non-empty message); a failure of the selected utility, and the absence of
\* every mechanism, come back as (False, message), and a utility that failed
\* is not followed by a try of another mechanism.
C17_CopyNeverRaises ==
    [][CopyToClipboard =>
         /\ call_exc' = ""
         /\ \/ result' = Success
            \/ /\ ~result'.ok
               /\ Len(result'.err) = 1 /\ result'.err[1] # ""
         /\ Len(NewCalls) <= 1
         /\ \A i \in 1..Len(NewCalls) : result'.ok <=> NewCalls[i].outcome = "ok"]_vars

\* C17 witness: wl-copy was selected and failed; xclip, also installed, was
\* not tried and the failure came back as (False, message).
C17_Witness ==
    /\ last = "copy_to_clipboard" /\ platform = "linux" /\ which = {"wl-copy", "xclip"}
    /\ Len(run_calls) = 1
    /\ run_calls[1].mechanism = "wl-copy" /\ run_calls[1].outcome = "CalledProcessError"
    /\ result = Failure(Message("CalledProcessError")) /\ call_exc = ""

\* The messages that say the payload is too large.
TooLarge == {"OSC52 payload too large"}

\* C18: _send_osc52(text, max_bytes) refuses a payload larger than
\* max_bytes, returning (False, a message containing "too large") and writing
\* nothing to the terminal; for a payload within the limit it writes one
\* OSC 52 sequence and returns (True, None).
C18_SendOsc52RefusesLargePayload ==
    [][\A max_bytes \in 0..MaxBytes :
         send_osc52(copy_text, max_bytes) =>
             /\ call_exc' = ""
             /\ IF Len(Utf8(copy_text).data) > max_bytes
                THEN /\ ~result'.ok
                     /\ \E m \in TooLarge : result'.err = <<m>>
                     /\ stdout' = stdout
                ELSE /\ result' = Success
                     /\ Len(stdout') = Len(stdout) + 1]_vars

\* C19: with TAILJLOGS_COPY_METHOD=osc52 and no clipboard utility available,
\* _copy_to_clipboard hands the text to _send_osc52 and returns what that
\* call returned.
C19_ForcedOsc52Delegates ==
    [][(CopyToClipboard /\ copy_method = "osc52" /\ platform = "linux" /\ which = {}) =>
         /\ Len(NewCalls) = 1
         /\ NewCalls[1].mechanism = "_send_osc52"
         /\ NewCalls[1].input = Str(copy_text)
         /\ result'.ok <=> NewCalls[1].outcome = "ok"]_vars

\* The refusals action_copy_json notifies.
Refusals == {"Open the line panel (Enter) to view/copy JSON", "No line selected",
             "Current line is not valid JSON"}
CopyGate == /\ show_panel /\ pointer_line # None
            /\ copy_raw \/ ValidJson(get_text(pointer_line))

\* C14: the copy-JSON action writes to the clipboard only when the detail
\* panel is shown, a pointer line is selected, and raw mode is on or the line
\* parses as JSON; otherwise it notifies and writes nothing; in every case
\* show_panel, copy_raw and the pointer line are left as they were.
C14_CopyOnlyFromOpenPanel ==
    [][action_copy_json =>
         /\ IF CopyGate
            THEN /\ Len(run_calls') = Len(run_calls) + 1
                 /\ run_calls'[Len(run_calls')].input.data
                      \in {Str(out').data, Utf8(out').data}
                 /\ notice' \notin Refusals
            ELSE /\ run_calls' = run_calls
                 /\ notice' \in Refusals
         /\ UNCHANGED <<show_panel, copy_raw, pointer_line>>]_vars

\* C14 witness: with the panel open on a line of invalid JSON and raw mode
\* on, the copy ran xclip on the bytes of the line as it is.
C14_Witness ==
    /\ last = "action_copy_json" /\ show_panel /\ pointer_line # None
    /\ ~ValidJson(get_text(pointer_line)) /\ copy_raw
    /\ Len(run_calls) = 1 /\ run_calls[1].mechanism = "xclip"
    /\ run_calls[1].input = Utf8(get_text(pointer_line))
    /\ notice = "Copied Raw JSON to clipboard"

C21_FooterShowsCopyMode ==
    meta.copy = IF show_panel THEN CopyIndicator(copy_raw) ELSE ""

(* ----------------------------- overlays ------------------------------- *)
\* The things a DismissOverlay closes, by priority: find dialog, filter
\* dialog, detail panel.
Shown == {i \in 1..3 : <<show_find, show_filter, show_panel>>[i]}
ShownAfter == {i \in 1..3 : <<show_find', show_filter', show_panel'>>[i]}
First(S) == CHOOSE i \in S : \A j \in S : i <= j

\* C22: each DismissOverlay closes exactly one thing, in the priority find
\* dialog, filter dialog, detail panel, pointer line; the pointer line is
\* cleared only when none of the three is shown, and what ranks lower than
\* the thing closed is left unchanged.
C22_DismissClosesOneByPriority ==
    [][dismiss_overlay =>
         IF Shown # {}
         THEN ShownAfter = Shown \ {First(Shown)} /\ pointer_line' = pointer_line
         ELSE ShownAfter = {} /\ pointer_line' = None]_vars

\* C22 witness: with both dialogs and the panel shown over a selected line,
\* a DismissOverlay has closed the find dialog alone.
C22_Witness ==
    /\ last = "dismiss_overlay"
    /\ ~show_find /\ show_filter /\ show_panel /\ pointer_line # None

\* C23: once a PointerMoved carrying no pointer line is handled the detail
\* panel is closed, whatever it was before; a PointerMoved carrying a line
\* number leaves show_panel as it was.
C23_PointerMovedClosesPanelOnNone ==
    [][pointer_moved =>
         IF Head(queue).pointer_line = None
         THEN ~show_panel'
         ELSE show_panel' = show_panel]_vars

\* C23 witness: a PointerMoved without a line was handled while no line is
\* selected; the panel is closed and the footer shows the first visible line.
C23_Witness ==
    /\ last = "pointer_moved" /\ pointer_line = None
    /\ ~show_panel /\ footer_line_no # None

(* ------------------------ find beside filter -------------------------- *)
\* C24: find and filter are independent: a FindDialog update leaves the
\* filter predicate (filter_text, filter_regex, filter_case_sensitive)
\* unchanged, and a FilterDialog update leaves the find predicate (find,
\* regex, case_sensitive) and the cursor unchanged.
C24_FindAndFilterIndependent ==
    [][/\ last' = "find_dialog_update" => UNCHANGED filter_vars
       /\ last' = "filter_dialog_update" => UNCHANGED <<find_vars, pointer_line>>]_vars

\* C24 witness: with a case-insensitive filter active and the cursor on a
\* line, a find update has set a case-sensitive find predicate.
C24_Witness ==
    /\ last = "find_dialog_update" /\ pointer_line # None
    /\ find = <<"a">> /\ case_sensitive
    /\ filter_text = <<"a">> /\ ~filter_case_sensitive

(* --------------------------- info overlay ----------------------------- *)
\* C26: in every state reached by PendingLines events and tail changes, the
\* new-lines InfoOverlay is displayed only if its message is non-blank and
\* tail is off; it is never displayed while the view is tailing.
C26_OverlayOnlyWhenNotTailing ==
    info_display => (info_message # 0 /\ ~tail)

(* --------------------------- footer keys ------------------------------ *)
\* The invocations inside "async with self.lock", and the end of all the
\* invocations made.
InLock == {i \in Invocations : mount_pc[i] \in {"remove", "mount"}}
AllFinished ==
    /\ \A i \in Invocations : mount_pc[i] \in {"none", "done"}
    /\ \E i \in Invocations : mount_pc[i] = "done"
KeysOf(action) == Cardinality({k \in DOMAIN key_container : key_container[k] = action})
OneKeyPerBinding ==
    \A k \in 1..Len(BindingOrder) :
        LET action == BindingOrder[k]
        IN  KeysOf(action) = IF (action \in bindings) /\ (action = "toggle_tail" => can_tail)
                             THEN 1 ELSE 0

\* C25 as stated: the footer's lock serializes the invocations of
\* mount_keys, so the remove-all and mount-all steps of two invocations
\* never interleave; once all invocations have finished the key container
\* holds exactly one FooterKey per shown active binding, the toggle_tail key
\* only if can_tail is true.
C25_AsStated ==
    /\ Cardinality(InLock) <= 1
    /\ AllFinished => OneKeyPerBinding

\* C25 as amended: the same serialization; once all invocations have
\* finished while the footer's screen is the app's active screen, the key
\* container holds exactly one FooterKey per shown active binding, the
\* toggle_tail key only if can_tail is true.
C25_MountKeysSerialized ==
    /\ Cardinality(InLock) <= 1
    /\ (AllFinished /\ screen_active) => OneKeyPerBinding

\* C25 witness: three invocations were made and have all finished on the
\* active screen, after a screen was pushed and dismissed; the container
\* holds the keys of the dialog's bindings, the tail key included.
C25_Witness ==
    /\ \A i \in Invocations : mount_pc[i] = "done"
    /\ screen_active /\ can_tail /\ last = "mount_keys_mount"
    /\ bindings = ViewBindings \cup {"dialog"}
    /\ key_container = <<"toggle_tail", "show_find_dialog", "goto", "dialog">>

====
